---------------------------- MODULE Spec2Model ----------------------------
(***************************************************************************)
(* A model of UpliftHttpTTSService (src/src/pipecat_upliftai/tts.py):      *)
(* construction, the two setters, cleanup() and the run_tts generator.     *)
(*                                                                         *)
(* Python coroutines run atomically between two suspension points, so one  *)
(* action is the code between two awaits / yields of a handler.  Every     *)
(* awaited collaborator (metrics hooks, the HTTP request, the body reads,  *)
(* push_error, the release of the response) either returns or raises.      *)
(* A call of a collaborator is recorded when it is invoked.                *)
(*                                                                         *)
(* Strings that the code only compares are TLA+ strings.  An output format *)
(* name is the tuple of its "_"-separated fields, <<"WAV","22050","16">>   *)
(* for "WAV_22050_16", so that startswith("WAV_") is computed.  A text and *)
(* a byte string are sequences of numbers.                                 *)
(***************************************************************************)
EXTENDS Integers, Sequences, FiniteSets

VARIABLES
    phase,            \* "new" before __init__ runs, then "ready" or "failed" (ValueError)
    args,             \* the keyword arguments of the pending __init__ call
    base_init,        \* super().__init__() has run
    api_key,          \* self._api_key
    session,          \* self._session: None, "external" or "internal"
    created_session,  \* self._created_session
    clientSessions,   \* the aiohttp.ClientSession objects: absent, open or closed
    settings,         \* self._settings
    base_voice,       \* the voice registered with the base class by set_voice()
    chunk_size,       \* self.chunk_size (base-class configuration)
    pc,               \* the suspension point of the run_tts call in flight
    in_text,          \* the argument of the run_tts call
    text,             \* run_tts local: text
    request,          \* the headers and json payload handed to session.post
    response,         \* the response of the request
    error_message,    \* run_tts local: error_message
    audio_content,    \* run_tts local: audio_content
    i,                \* run_tts local: the loop index i
    events,           \* the frames yielded by the current run_tts call, in order
    pushes,           \* the push_error invocations of the current run_tts call
    posts,            \* the session.post requests issued by the current run_tts call
    metered,          \* the start_tts_usage_metrics invocations of the current call
    calls,            \* number of run_tts calls started
    setter_during,    \* a setter ran while the current run_tts call was in flight
    closing,          \* number of cleanup() coroutines suspended in session.close()
    close_calls,      \* number of session.close() invocations
    cleanup_calls,    \* number of cleanup() invocations
    cleanup_overlap,  \* a cleanup() started while another one was suspended
    scope,            \* `async with service`: "outside", "inside", "exiting" (__aexit__
                      \* suspended in cleanup()) or "exited"
    entered,          \* what __aenter__ returned
    scope_exc         \* the exc_type __aexit__ was called with

vars == <<phase, args, base_init, api_key, session, created_session, clientSessions,
          settings, base_voice, chunk_size, pc, in_text, text, request, response,
          error_message, audio_content, i, events, pushes, posts, metered, calls,
          setter_during, closing, close_calls, cleanup_calls, cleanup_overlap,
          scope, entered, scope_exc>>

ctorVars == <<phase, args, base_init, api_key, session, created_session, settings>>
callVars == <<pc, in_text, text, request, response, error_message, audio_content, i,
              events, pushes, posts, metered, calls, setter_during>>
cleanupVars == <<closing, close_calls, cleanup_calls, cleanup_overlap>>
scopeVars == <<scope, entered, scope_exc>>
envVars == <<chunk_size, scopeVars>>

----------------------------------------------------------------------------
(* Bounds of the model *)

MaxCalls == 2
MaxCleanups == 2
MaxAudioLen == 4
MaxTextExtra == 2

(* Program constants *)

MAX_TEXT_LEN == 2500
WAV_HEADER_LEN == 44
HTTP_OK == 200

None == "<None>"
NoParams == << >>
Unset == << >>

\* Two of AVAILABLE_FORMATS.  The membership tests against AVAILABLE_VOICES and
\* AVAILABLE_FORMATS only log a warning and change no state.
WAV_22050_16 == <<"WAV", "22050", "16">>
MP3_22050_32 == <<"MP3", "22050", "32">>
NoneFormat == <<None>>

----------------------------------------------------------------------------
(* Python helpers *)

Min(a, b) == IF a < b THEN a ELSE b

\* x or y, for an Optional[str] x
Or(x, y) == IF x \in {None, ""} THEN y ELSE x

\* x or y, for an Optional[str] x that holds a format name
OrFormat(x, y) == IF x \in {NoneFormat, << >>} THEN y ELSE x

\* s[:n]
SliceTo(s, n) == SubSeq(s, 1, Min(n, Len(s)))

\* s[n:]
SliceFrom(s, n) == SubSeq(s, n + 1, Len(s))

\* s[a : a + n]
SliceLen(s, a, n) == SubSeq(s, a + 1, Min(a + n, Len(s)))

\* name.startswith("WAV_")
StartsWithWAV(name) == Len(name) >= 2 /\ name[1] = "WAV"

----------------------------------------------------------------------------
(* Inputs *)

ApiKeys == {None, "", "sk_test"}
VoiceInputs == {"v_8eelc901", "v_kwmp7zxt"}
FormatInputs == {WAV_22050_16, MP3_22050_32}
ChunkSizes == {3, 64}
Statuses == {HTTP_OK, 201, 503}
ErrorTexts == {"server overloaded", ""}

\* The keyword arguments a caller gives InputParams(...): each field may be left out.
ParamsKwargs ==
    { << >> }
    \cup [voice_id : VoiceInputs \cup {None}]
    \cup [output_format : FormatInputs \cup {NoneFormat}]
    \cup [voice_id : VoiceInputs \cup {None}, output_format : FormatInputs \cup {NoneFormat}]

CtorArgs ==
    [api_key : ApiKeys, voice_id : VoiceInputs, output_format : FormatInputs,
     aiohttp_session : {None, "external"},
     params : {NoParams} \cup { <<kw>> : kw \in ParamsKwargs }]

NoArgs == << >>

MkText(n, k) == [j \in 1..n |-> (j + k) % 3]
ShortTexts == { MkText(2, 0) }
LongTexts ==
    { MkText(n, k) : n \in {0, 1, MAX_TEXT_LEN - 1} \cup (MAX_TEXT_LEN .. MAX_TEXT_LEN + MaxTextExtra),
                     k \in {0, 1} }

Body(n) == [j \in 1..n |-> j % 256]
BodyLens ==
    {0, WAV_HEADER_LEN - 1, WAV_HEADER_LEN, WAV_HEADER_LEN + 1, WAV_HEADER_LEN + MaxAudioLen}
Responses ==
    [status : {HTTP_OK}, body : { Body(n) : n \in BodyLens }, text : {""}]
    \cup [status : Statuses \ {HTTP_OK}, body : { << >> }, text : ErrorTexts]

----------------------------------------------------------------------------
(* Frames *)

TTSStartedFrame == [type |-> "started"]
TTSStoppedFrame == [type |-> "stopped"]
TTSAudioRawFrame(chunk) == [type |-> "audio", audio |-> chunk, num_channels |-> 1]
ErrorFrame(msg) == [type |-> "error", error |-> msg]

\* f"Uplift HTTP TTS error: {response.status} - {error_text}"
HttpErrorMessage(status, error_text) == <<"Uplift HTTP TTS error", status, error_text>>

\* f"TTS generation error: {str(e)}"
ExcErrorMessage(e) == <<"TTS generation error", e>>

----------------------------------------------------------------------------
(* Construction *)

\* InputParams(**kw): the pydantic model with its field defaults
InputParams(kw) ==
    [voice_id |-> IF "voice_id" \in DOMAIN kw THEN kw.voice_id ELSE None,
     output_format |-> IF "output_format" \in DOMAIN kw THEN kw.output_format
                       ELSE WAV_22050_16]

\* self._params = params or UpliftHttpTTSService.InputParams()
EffectiveParams(a) ==
    IF a.params = NoParams THEN InputParams(<< >>) ELSE InputParams(a.params[1])

\* final_output_format = self._params.output_format or output_format
FinalOutputFormat(a) == OrFormat(EffectiveParams(a).output_format, a.output_format)

\* self._params.voice_id or voice_id
FinalVoiceId(a) == Or(EffectiveParams(a).voice_id, a.voice_id)

\* if not api_key: raise ValueError("Missing Uplift API key")
ApiKeyMissing(a) == Or(a.api_key, None) = None

Init ==
    /\ phase = "new"
    /\ args \in CtorArgs
    /\ base_init = FALSE
    /\ api_key = None
    /\ session = None
    /\ created_session = Unset
    /\ clientSessions \in { [external |-> "open", internal |-> "absent"],
                            [external |-> "absent", internal |-> "absent"] }
    /\ (args.aiohttp_session = "external") = (clientSessions.external = "open")
    /\ settings = Unset
    /\ base_voice = None
    /\ chunk_size \in ChunkSizes
    /\ pc = "idle"
    /\ in_text = << >>
    /\ text = << >>
    /\ request = Unset
    /\ response = Unset
    /\ error_message = Unset
    /\ audio_content = << >>
    /\ i = 0
    /\ events = << >>
    /\ pushes = << >>
    /\ posts = 0
    /\ metered = << >>
    /\ calls = 0
    /\ setter_during = FALSE
    /\ closing = 0
    /\ close_calls = 0
    /\ cleanup_calls = 0
    /\ cleanup_overlap = FALSE
    /\ scope = "outside"
    /\ entered = None
    /\ scope_exc = None

\* Mutant: the api key is checked after the session has been created
ConstructFailAfterSession ==
    /\ phase' = "failed"
    /\ args' = NoArgs
    /\ base_init' = TRUE
    /\ IF args.aiohttp_session = None
       THEN /\ session' = "internal"
            /\ created_session' = TRUE
            /\ clientSessions' = [clientSessions EXCEPT !.internal = "open"]
       ELSE /\ session' = args.aiohttp_session
            /\ created_session' = FALSE
            /\ UNCHANGED clientSessions
    /\ UNCHANGED <<api_key, settings, base_voice>>

\* __init__ raising ValueError: only super().__init__() has run
ConstructFail ==
    /\ phase' = "failed"
    /\ args' = NoArgs
    /\ base_init' = TRUE
    /\ UNCHANGED <<api_key, session, created_session, clientSessions, settings, base_voice>>

\* __init__ running to its end
ConstructOk ==
    /\ phase' = "ready"
    /\ args' = NoArgs
    /\ base_init' = TRUE
    /\ api_key' = args.api_key
    /\ IF args.aiohttp_session = None
       THEN /\ session' = "internal"
            /\ created_session' = TRUE
            /\ clientSessions' = [clientSessions EXCEPT !.internal = "open"]
       ELSE /\ session' = args.aiohttp_session
            /\ created_session' = FALSE
            /\ UNCHANGED clientSessions
    /\ settings' = [voice_id |-> FinalVoiceId(args), output_format |-> FinalOutputFormat(args)]
    /\ base_voice' = FinalVoiceId(args)

Construct ==
    /\ phase = "new"
    /\ IF ApiKeyMissing(args) THEN ConstructFail ELSE ConstructOk
    /\ UNCHANGED <<envVars, callVars, cleanupVars>>

----------------------------------------------------------------------------
(* Setters *)

InFlight == pc \notin {"idle", "done", "raised", "cancelled"}

\* Mutant: the voice is written to the settings record only
SetVoiceIdSettingsOnly(voice_id) ==
    /\ phase = "ready"
    /\ settings' = [settings EXCEPT !.voice_id = voice_id]
    /\ setter_during' = (setter_during \/ InFlight)
    /\ UNCHANGED <<phase, args, base_init, api_key, session, created_session,
                   clientSessions, base_voice, envVars, pc, in_text, text, request,
                   response, error_message, audio_content, i, events, pushes, posts,
                   metered, calls, cleanupVars>>

set_voice_id(voice_id) ==
    /\ phase = "ready"
    /\ settings' = [settings EXCEPT !.voice_id = voice_id]
    /\ base_voice' = voice_id
    /\ setter_during' = (setter_during \/ InFlight)
    /\ UNCHANGED <<phase, args, base_init, api_key, session, created_session,
                   clientSessions, envVars, pc, in_text, text, request, response,
                   error_message, audio_content, i, events, pushes, posts, metered,
                   calls, cleanupVars>>

set_output_format(output_format) ==
    /\ phase = "ready"
    /\ settings' = [settings EXCEPT !.output_format = output_format]
    /\ setter_during' = (setter_during \/ InFlight)
    /\ UNCHANGED <<phase, args, base_init, api_key, session, created_session,
                   clientSessions, base_voice, envVars, pc, in_text, text, request,
                   response, error_message, audio_content, i, events, pushes, posts,
                   metered, calls, cleanupVars>>

----------------------------------------------------------------------------
(* cleanup() *)

\* if self._created_session and self._session:
\* Mutant: cleanup closes whatever session the adapter holds
CleanupGuardAnySession == session # None

CleanupGuard == created_session = TRUE /\ session # None

\* a cleanup() coroutine is suspended in session.close()
CleanupSuspended == closing > 0 \/ scope = "exiting"

\* cleanup() up to its suspension in await self._session.close(), or to its
\* end when the guard is false
CleanupCall ==
    /\ phase = "ready"
    /\ cleanup_calls < MaxCleanups
    /\ cleanup_calls' = cleanup_calls + 1
    /\ cleanup_overlap' = (cleanup_overlap \/ CleanupSuspended)
    /\ IF CleanupGuard
       THEN /\ close_calls' = close_calls + 1
            /\ closing' = closing + 1
       ELSE UNCHANGED <<close_calls, closing>>
    /\ UNCHANGED <<ctorVars, clientSessions, base_voice, envVars, callVars>>

\* Mutant: the reference is not cleared after the close
CleanupReturnKeepsReference ==
    /\ closing > 0
    /\ closing' = closing - 1
    /\ clientSessions' = [clientSessions EXCEPT !.internal = "closed"]
    /\ UNCHANGED <<ctorVars, base_voice, envVars, callVars, close_calls,
                   cleanup_calls, cleanup_overlap>>

\* session.close() returns: self._session = None
CleanupReturn ==
    /\ closing > 0
    /\ closing' = closing - 1
    /\ clientSessions' = [clientSessions EXCEPT !.internal = "closed"]
    /\ session' = None
    /\ UNCHANGED <<phase, args, base_init, api_key, created_session, settings,
                   base_voice, envVars, callVars, close_calls, cleanup_calls,
                   cleanup_overlap>>

----------------------------------------------------------------------------
(* async with service: __aenter__ and __aexit__ *)

ExcTypes == {None, "Exception"}

\* __aenter__: return self
AEnter ==
    /\ phase = "ready"
    /\ scope = "outside"
    /\ scope' = "inside"
    /\ entered' = "self"
    /\ UNCHANGED <<ctorVars, clientSessions, base_voice, chunk_size, callVars,
                   cleanupVars, scope_exc>>

\* __aexit__(exc_type, exc_val, exc_tb): await self.cleanup(), up to the
\* suspension of that cleanup() in session.close() or to its end
\* Mutant: the exit runs cleanup only when the block ended normally
AExitSkipsOnException(exc_type) ==
    /\ scope = "inside"
    /\ cleanup_calls < MaxCleanups
    /\ scope_exc' = exc_type
    /\ IF exc_type = None /\ CleanupGuard
       THEN /\ close_calls' = close_calls + 1
            /\ scope' = "exiting"
       ELSE /\ scope' = "exited"
            /\ UNCHANGED close_calls
    /\ cleanup_calls' = IF exc_type = None THEN cleanup_calls + 1 ELSE cleanup_calls
    /\ cleanup_overlap' = (cleanup_overlap \/ CleanupSuspended)
    /\ UNCHANGED <<ctorVars, clientSessions, base_voice, chunk_size, callVars, closing,
                   entered>>

AExit(exc_type) ==
    /\ scope = "inside"
    /\ cleanup_calls < MaxCleanups
    /\ scope_exc' = exc_type
    /\ cleanup_calls' = cleanup_calls + 1
    /\ cleanup_overlap' = (cleanup_overlap \/ CleanupSuspended)
    /\ IF CleanupGuard
       THEN /\ close_calls' = close_calls + 1
            /\ scope' = "exiting"
       ELSE /\ scope' = "exited"
            /\ UNCHANGED close_calls
    /\ UNCHANGED <<ctorVars, clientSessions, base_voice, chunk_size, callVars,
                   closing, entered>>

\* the session.close() of __aexit__'s cleanup() returns: self._session = None
AExitReturn ==
    /\ scope = "exiting"
    /\ scope' = "exited"
    /\ clientSessions' = [clientSessions EXCEPT !.internal = "closed"]
    /\ session' = None
    /\ UNCHANGED <<phase, args, base_init, api_key, created_session, settings,
                   base_voice, chunk_size, callVars, cleanupVars, entered, scope_exc>>

----------------------------------------------------------------------------
(* run_tts(text) *)

\* Mutant: the last 2500 characters are kept
TruncateKeepsTail(t) ==
    IF Len(t) > MAX_TEXT_LEN THEN SliceFrom(t, Len(t) - MAX_TEXT_LEN) ELSE t

\* if len(text) > 2500: text = text[:2500]
Truncate(t) == IF Len(t) > MAX_TEXT_LEN THEN SliceTo(t, MAX_TEXT_LEN) ELSE t

\* headers and payload of the request
BuildRequest(t) ==
    [headers |-> [Authorization |-> <<"Bearer", api_key>>,
                  ContentType |-> "application/json"],
     json |-> [text |-> t,
               voiceId |-> settings.voice_id,
               outputFormat |-> settings.output_format]]

\* Mutant: the header is skipped whatever the format
StripHeaderAlways(output_format, audio_bytes) == SliceFrom(audio_bytes, WAV_HEADER_LEN)

\* audio_content: WAV formats lose the 44-byte header
StripHeader(output_format, audio_bytes) ==
    IF StartsWithWAV(output_format) THEN SliceFrom(audio_bytes, WAV_HEADER_LEN)
    ELSE audio_bytes

\* Mutant: a chunk runs one byte into the next one
ChunkOverlapping(content, at, size) == SliceLen(content, at, size + 1)

\* Mutant: only responses of status 400 and above take the error branch
IsErrorStatusFrom400(status) == status >= 400

\* if response.status != 200
IsErrorStatus(status) == status # HTTP_OK

\* chunk = audio_content[i : i + CHUNK_SIZE]
Chunk(content, at, size) == SliceLen(content, at, size)

\* except Exception as e: the handler up to its await self.push_error(...)
Raise(e) ==
    /\ error_message' = ExcErrorMessage(e)
    /\ pushes' = Append(pushes, ExcErrorMessage(e))
    /\ pc' = "handler_push_error"

\* the call of run_tts up to await self.start_ttfb_metrics()
RunTts(texts) ==
    /\ phase = "ready"
    /\ ~InFlight
    /\ calls < MaxCalls
    /\ \E t \in texts :
          /\ in_text' = t
          /\ text' = Truncate(t)
    /\ calls' = calls + 1
    /\ pc' = "start_ttfb_metrics"
    /\ request' = Unset
    /\ response' = Unset
    /\ error_message' = Unset
    /\ audio_content' = << >>
    /\ i' = 0
    /\ events' = << >>
    /\ pushes' = << >>
    /\ posts' = 0
    /\ metered' = << >>
    /\ setter_during' = FALSE
    /\ UNCHANGED <<ctorVars, clientSessions, base_voice, envVars, cleanupVars>>

\* start_ttfb_metrics() returns: the request is built and session.post called
StartTtfbMetrics ==
    /\ pc = "start_ttfb_metrics"
    /\ \/ /\ Raise("start_ttfb_metrics")
          /\ UNCHANGED <<request, posts>>
       \/ /\ request' = BuildRequest(text)
          /\ IF session = None
             THEN /\ Raise("'NoneType' object has no attribute 'post'")
                  /\ UNCHANGED posts
             ELSE /\ posts' = posts + 1
                  /\ pc' = "post"
                  /\ UNCHANGED <<error_message, pushes>>
    /\ UNCHANGED <<ctorVars, clientSessions, base_voice, envVars, in_text, text,
                   response, audio_content, i, events, metered, calls, setter_during,
                   cleanupVars>>

\* Mutant: a response of error status is answered by posting the request again
PostRetriesOnError ==
    /\ pc = "post"
    /\ \/ /\ Raise("post")
          /\ UNCHANGED <<response, posts>>
       \/ /\ \E r \in Responses : response' = r
          /\ IF IsErrorStatus(response'.status) /\ posts < 2
             THEN /\ posts' = posts + 1
                  /\ pc' = "post"
             ELSE /\ pc' = IF IsErrorStatus(response'.status)
                           THEN "response_text" ELSE "response_read"
                  /\ UNCHANGED posts
          /\ UNCHANGED <<error_message, pushes>>
    /\ UNCHANGED <<ctorVars, clientSessions, base_voice, envVars, in_text, text,
                   request, audio_content, i, events, metered, calls,
                   setter_during, cleanupVars>>

\* the request returns a response or raises
Post ==
    /\ pc = "post"
    /\ \/ /\ Raise("post")
          /\ UNCHANGED response
       \/ /\ \E r \in Responses : response' = r
          /\ pc' = IF IsErrorStatus(response'.status) THEN "response_text" ELSE "response_read"
          /\ UNCHANGED <<error_message, pushes>>
    /\ UNCHANGED <<ctorVars, clientSessions, base_voice, envVars, in_text, text,
                   request, audio_content, i, events, posts, metered, calls,
                   setter_during, cleanupVars>>

\* non-200: response.text() returns, push_error is called
ResponseText ==
    /\ pc = "response_text"
    /\ \/ Raise("response_text")
       \/ /\ error_message' = HttpErrorMessage(response.status, response.text)
          /\ pushes' = Append(pushes, error_message')
          /\ pc' = "push_error"
    /\ UNCHANGED <<ctorVars, clientSessions, base_voice, envVars, in_text, text,
                   request, response, audio_content, i, events, posts, metered, calls,
                   setter_during, cleanupVars>>

\* non-200: push_error returns, the error frame is yielded
PushError ==
    /\ pc = "push_error"
    /\ \/ /\ Raise("push_error")
          /\ UNCHANGED events
       \/ /\ events' = Append(events, ErrorFrame(error_message))
          /\ pc' = "yield_error"
          /\ UNCHANGED <<error_message, pushes>>
    /\ UNCHANGED <<ctorVars, clientSessions, base_voice, envVars, in_text, text,
                   request, response, audio_content, i, posts, metered, calls,
                   setter_during, cleanupVars>>

\* non-200: the consumer resumes the generator: return, the response is released
YieldError ==
    /\ pc = "yield_error"
    /\ \/ Raise("release")
       \/ /\ pc' = "done"
          /\ UNCHANGED <<error_message, pushes>>
    /\ UNCHANGED <<ctorVars, clientSessions, base_voice, envVars, in_text, text,
                   request, response, audio_content, i, events, posts, metered, calls,
                   setter_during, cleanupVars>>

\* Mutant: the usage metric is given the text run_tts was called with
ResponseReadMetersInput ==
    /\ pc = "response_read"
    /\ \/ /\ Raise("response_read")
          /\ UNCHANGED metered
       \/ /\ metered' = Append(metered, in_text)
          /\ pc' = "usage_metrics"
          /\ UNCHANGED <<error_message, pushes>>
    /\ UNCHANGED <<ctorVars, clientSessions, base_voice, envVars, in_text, text,
                   request, response, audio_content, i, events, posts, calls,
                   setter_during, cleanupVars>>

\* 200: response.read() returns, start_tts_usage_metrics is called
ResponseRead ==
    /\ pc = "response_read"
    /\ \/ /\ Raise("response_read")
          /\ UNCHANGED metered
       \/ /\ metered' = Append(metered, text)
          /\ pc' = "usage_metrics"
          /\ UNCHANGED <<error_message, pushes>>
    /\ UNCHANGED <<ctorVars, clientSessions, base_voice, envVars, in_text, text,
                   request, response, audio_content, i, events, posts, calls,
                   setter_during, cleanupVars>>

\* start_tts_usage_metrics returns, TTSStartedFrame is yielded
UsageMetrics ==
    /\ pc = "usage_metrics"
    /\ \/ /\ Raise("start_tts_usage_metrics")
          /\ UNCHANGED events
       \/ /\ events' = Append(events, TTSStartedFrame)
          /\ pc' = "yield_started"
          /\ UNCHANGED <<error_message, pushes>>
    /\ UNCHANGED <<ctorVars, clientSessions, base_voice, envVars, in_text, text,
                   request, response, audio_content, i, posts, metered, calls,
                   setter_during, cleanupVars>>

\* the loop from index `at`: the next chunk's stop_ttfb_metrics call, or, past
\* the last chunk, the yield of TTSStoppedFrame
LoopFrom(content, at) ==
    /\ i' = at
    /\ IF at < Len(content) /\ Chunk(content, at, chunk_size) # << >>
       THEN /\ pc' = "stop_ttfb_metrics"
            /\ UNCHANGED events
       ELSE /\ events' = Append(events, TTSStoppedFrame)
            /\ pc' = "yield_stopped"

\* the consumer resumes after TTSStartedFrame: the header is stripped by the
\* format set now, and the loop starts
YieldStarted ==
    /\ pc = "yield_started"
    /\ audio_content' = StripHeader(settings.output_format, response.body)
    /\ LoopFrom(audio_content', 0)
    /\ UNCHANGED <<ctorVars, clientSessions, base_voice, envVars, in_text, text,
                   request, response, error_message, pushes, posts, metered, calls,
                   setter_during, cleanupVars>>

\* stop_ttfb_metrics returns, the audio frame is built and yielded
StopTtfbMetrics ==
    /\ pc = "stop_ttfb_metrics"
    /\ \/ /\ Raise("stop_ttfb_metrics")
          /\ UNCHANGED events
       \/ /\ events' = Append(events, TTSAudioRawFrame(Chunk(audio_content, i, chunk_size)))
          /\ pc' = "yield_audio"
          /\ UNCHANGED <<error_message, pushes>>
    /\ UNCHANGED <<ctorVars, clientSessions, base_voice, envVars, in_text, text,
                   request, response, audio_content, i, posts, metered, calls,
                   setter_during, cleanupVars>>

\* the consumer resumes after an audio frame: the next iteration
YieldAudio ==
    /\ pc = "yield_audio"
    /\ LoopFrom(audio_content, i + chunk_size)
    /\ UNCHANGED <<ctorVars, clientSessions, base_voice, envVars, in_text, text,
                   request, response, error_message, audio_content, pushes, posts,
                   metered, calls, setter_during, cleanupVars>>

\* the consumer resumes after TTSStoppedFrame: the response is released
YieldStopped ==
    /\ pc = "yield_stopped"
    /\ \/ Raise("release")
       \/ /\ pc' = "done"
          /\ UNCHANGED <<error_message, pushes>>
    /\ UNCHANGED <<ctorVars, clientSessions, base_voice, envVars, in_text, text,
                   request, response, audio_content, i, events, posts, metered, calls,
                   setter_during, cleanupVars>>

\* Mutant: the handler drops the adapter's session before it reports
HandlerPushErrorDropsSession ==
    /\ pc = "handler_push_error"
    /\ \/ /\ pc' = "raised"
          /\ UNCHANGED events
       \/ /\ events' = Append(events, ErrorFrame(error_message))
          /\ pc' = "yield_handler_error"
    /\ session' = None
    /\ UNCHANGED <<phase, args, base_init, api_key, created_session, settings,
                   clientSessions, base_voice, envVars, in_text, text,
                   request, response, error_message, audio_content, i, pushes, posts,
                   metered, calls, setter_during, cleanupVars>>

\* the handler's push_error returns (its error frame is yielded) or raises
\* (the exception leaves the generator)
HandlerPushError ==
    /\ pc = "handler_push_error"
    /\ \/ /\ pc' = "raised"
          /\ UNCHANGED events
       \/ /\ events' = Append(events, ErrorFrame(error_message))
          /\ pc' = "yield_handler_error"
    /\ UNCHANGED <<ctorVars, clientSessions, base_voice, envVars, in_text, text,
                   request, response, error_message, audio_content, i, pushes, posts,
                   metered, calls, setter_during, cleanupVars>>

\* the consumer resumes after the handler's error frame: the generator ends
YieldHandlerError ==
    /\ pc = "yield_handler_error"
    /\ pc' = "done"
    /\ UNCHANGED <<ctorVars, clientSessions, base_voice, envVars, in_text, text,
                   request, response, error_message, audio_content, i, events, pushes,
                   posts, metered, calls, setter_during, cleanupVars>>

----------------------------------------------------------------------------
(* Cancellation of a run_tts call by its consumer.  CancelledError (thrown at  *)
(* an await) and GeneratorExit (thrown at a yield by aclose()) are not         *)
(* Exceptions: `except Exception` does not catch them, and they leave the      *)
(* generator through the exit of `async with`, which releases the response.    *)
(* An Exception raised by that release replaces them and is caught.            *)

AwaitPoints ==
    {"start_ttfb_metrics", "post", "response_text", "push_error", "response_read",
     "usage_metrics", "stop_ttfb_metrics", "handler_push_error"}

YieldPoints ==
    {"yield_error", "yield_started", "yield_audio", "yield_stopped", "yield_handler_error"}

\* the suspension points inside `async with self._session.post(...) as response`
InsideWith ==
    {"response_text", "push_error", "yield_error", "response_read", "usage_metrics",
     "yield_started", "stop_ttfb_metrics", "yield_audio", "yield_stopped"}

\* the generator is left: outside the `async with` at once; inside it the
\* response is released, and if that raises the handler runs up to its
\* await self.push_error(...)
Unwind(handler_pc) ==
    IF pc \in InsideWith
    THEN \/ /\ pc' = "cancelled"
            /\ UNCHANGED <<error_message, pushes>>
         \/ /\ error_message' = ExcErrorMessage("release")
            /\ pushes' = Append(pushes, ExcErrorMessage("release"))
            /\ pc' = handler_pc
    ELSE /\ pc' = "cancelled"
         /\ UNCHANGED <<error_message, pushes>>

\* the consumer's task is cancelled while run_tts is suspended in an await
CancelTask ==
    /\ pc \in AwaitPoints
    /\ Unwind("cancel_handler_push_error")
    /\ UNCHANGED <<ctorVars, clientSessions, base_voice, envVars, in_text, text,
                   request, response, audio_content, i, events, posts, metered,
                   calls, setter_during, cleanupVars>>

\* the consumer closes the generator (aclose()) while it is suspended in a yield
Aclose ==
    /\ pc \in YieldPoints
    /\ Unwind("close_handler_push_error")
    /\ UNCHANGED <<ctorVars, clientSessions, base_voice, envVars, in_text, text,
                   request, response, audio_content, i, events, posts, metered,
                   calls, setter_during, cleanupVars>>

\* after a cancelled task's release raised: the handler's push_error raises, or
\* returns and the handler yields its error frame
CancelHandlerPushError ==
    /\ pc = "cancel_handler_push_error"
    /\ pc' = "cancelled"
    /\ \/ UNCHANGED events
       \/ events' = Append(events, ErrorFrame(error_message))
    /\ UNCHANGED <<ctorVars, clientSessions, base_voice, envVars, in_text, text,
                   request, response, error_message, audio_content, i, pushes, posts,
                   metered, calls, setter_during, cleanupVars>>

\* after aclose()'s release raised: the handler's push_error raises, or returns
\* and the handler's yield makes aclose() raise RuntimeError; no frame is delivered
CloseHandlerPushError ==
    /\ pc = "close_handler_push_error"
    /\ pc' = "cancelled"
    /\ UNCHANGED <<ctorVars, clientSessions, base_voice, envVars, in_text, text,
                   request, response, error_message, audio_content, i, events, pushes,
                   posts, metered, calls, setter_during, cleanupVars>>

----------------------------------------------------------------------------
(* Specifications *)

Next ==
    \/ Construct
    \/ \E v \in VoiceInputs : set_voice_id(v)
    \/ \E f \in FormatInputs : set_output_format(f)
    \/ CleanupCall
    \/ CleanupReturn
    \/ RunTts(ShortTexts)
    \/ StartTtfbMetrics
    \/ Post
    \/ ResponseText
    \/ PushError
    \/ YieldError
    \/ ResponseRead
    \/ UsageMetrics
    \/ YieldStarted
    \/ StopTtfbMetrics
    \/ YieldAudio
    \/ YieldStopped
    \/ HandlerPushError
    \/ YieldHandlerError

Spec == Init /\ [][Next]_vars

\* run_tts on texts around the truncation bound, up to the request
NextText ==
    \/ Construct
    \/ RunTts(LongTexts)
    \/ StartTtfbMetrics

SpecText == Init /\ [][NextText]_vars

\* the whole life of an adapter: every operation, the scoped use included, with
\* the chunk size that delivers each response in one frame
InitLife == Init /\ chunk_size = 64

NextLife ==
    \/ Next
    \/ AEnter
    \/ \E exc_type \in ExcTypes : AExit(exc_type)
    \/ AExitReturn

SpecLife == InitLife /\ [][NextLife]_vars

\* Calls with texts around the length limit, up to the yield of TTSStartedFrame
\* or to the end of a failing call.
NextMeter ==
    \/ Construct
    \/ RunTts(LongTexts)
    \/ StartTtfbMetrics
    \/ Post
    \/ ResponseText
    \/ PushError
    \/ YieldError
    \/ ResponseRead
    \/ UsageMetrics
    \/ HandlerPushError
    \/ YieldHandlerError

SpecMeter == InitLife /\ [][NextMeter]_vars

\* The adapter whose consumer may cancel a call or close its generator.
NextCancel ==
    \/ Next
    \/ CancelTask
    \/ Aclose
    \/ CancelHandlerPushError
    \/ CloseHandlerPushError

SpecCancel == InitLife /\ [][NextCancel]_vars

----------------------------------------------------------------------------
(* Observations on the frames of the current run_tts call *)

IsType(e, t) == e.type = t
Started(evts) == SelectSeq(evts, LAMBDA e : IsType(e, "started"))
Audio(evts) == SelectSeq(evts, LAMBDA e : IsType(e, "audio"))
Stopped(evts) == SelectSeq(evts, LAMBDA e : IsType(e, "stopped"))
Errors(evts) == SelectSeq(evts, LAMBDA e : IsType(e, "error"))

Ended == pc \in {"done", "raised"}
HasResponse == response # Unset
Non200 == HasResponse /\ response.status # HTTP_OK

----------------------------------------------------------------------------
(* C1 *)

----------------------------------------------------------------------------
(* C2 *)

\* C2 as stated: a call that has ended has yielded TTSStoppedFrame exactly when
\* it ended without any error, and a yielded TTSStoppedFrame is the last frame.
C2_StoppedIffNoErrorAndLast ==
    /\ Ended =>
          (Stopped(events) # << >>
             <=> (pc = "done" /\ pushes = << >> /\ Errors(events) = << >>))
    /\ \A k \in DOMAIN events : events[k].type = "stopped" => k = Len(events)

----------------------------------------------------------------------------
(* C3 *)

\* C3 as stated, for a non-200 response whose body text was read: the message
\* with the status and the body text is the only push_error invocation of the
\* call, which yields no audio, started or stopped frame and at most one error
\* frame, does not raise, and ends having yielded exactly that error frame.
C3_Non200OneError ==
    (Non200 /\ pushes # << >>
            /\ pushes[1] = HttpErrorMessage(response.status, response.text)) =>
        /\ Len(pushes) = 1
        /\ Audio(events) = << >> /\ Stopped(events) = << >> /\ Started(events) = << >>
        /\ Len(Errors(events)) <= 1
        /\ pc # "raised"
        /\ pc = "done" => events = <<ErrorFrame(pushes[1])>>

----------------------------------------------------------------------------
(* C4 *)

Failing == pushes # << >> \/ Errors(events) # << >> \/ pc = "raised"

\* C4 as stated: in a failing call push_error is never invoked twice and no
\* second error frame is yielded, and when the call has ended each has
\* happened exactly once.
C4_ExactlyOnceEach ==
    /\ Len(pushes) <= 1 /\ Len(Errors(events)) <= 1
    /\ (Ended /\ Failing) => (Len(pushes) = 1 /\ Len(Errors(events)) = 1)

----------------------------------------------------------------------------
(* C5 *)

\* C5: the text of the request payload is the first min(len(text), 2500)
\* characters of the text run_tts was called with, so never more than 2500.
C5_PayloadTextIsPrefix ==
    request # Unset =>
        LET sent == request.json.text
            n == IF Len(in_text) <= MAX_TEXT_LEN THEN Len(in_text) ELSE MAX_TEXT_LEN
        IN  /\ Len(sent) = n
            /\ Len(sent) <= MAX_TEXT_LEN
            /\ \A k \in 1..n : sent[k] = in_text[k]

\* a request built from a text longer than 2500 characters
C5_Witness ==
    /\ request # Unset
    /\ Len(in_text) > MAX_TEXT_LEN
    /\ Len(request.json.text) = MAX_TEXT_LEN

----------------------------------------------------------------------------
(* C6 *)

RECURSIVE Concat(_)
Concat(frames) ==
    IF frames = << >> THEN << >> ELSE Head(frames).audio \o Concat(Tail(frames))

\* b[n:], written out byte by byte
DropFirst(b, n) == [k \in 1..(IF Len(b) > n THEN Len(b) - n ELSE 0) |-> b[k + n]]

\* C6: when a call has yielded TTSStoppedFrame and no setter ran during it, the
\* bytes of its audio frames, concatenated in order, are the response body
\* without its first 44 bytes for a WAV_ format and the whole body otherwise.
C6_AudioBytes ==
    (Stopped(events) # << >> /\ ~setter_during) =>
        Concat(Audio(events)) =
            IF StartsWithWAV(request.json.outputFormat)
            THEN DropFirst(response.body, WAV_HEADER_LEN)
            ELSE response.body

\* a WAV response longer than its header, delivered in several frames
C6_Witness ==
    /\ Stopped(events) # << >> /\ ~setter_during
    /\ StartsWithWAV(request.json.outputFormat)
    /\ Len(response.body) > WAV_HEADER_LEN
    /\ Len(Audio(events)) >= 2

----------------------------------------------------------------------------
(* C7 *)

CeilDiv(a, b) == (a + b - 1) \div b

\* C7: a call that has yielded TTSStoppedFrame for a non-empty audio content
\* has yielded ceil(len/N) audio frames, the k-th carrying the bytes
\* (k-1)*N+1 .. min(k*N, len) of the content: N bytes each but possibly the
\* last, never none.
C7_Chunking ==
    (Stopped(events) # << >> /\ Len(audio_content) > 0) =>
        LET frames == Audio(events)
            N == chunk_size
            L == Len(audio_content)
        IN  /\ Len(frames) = CeilDiv(L, N)
            /\ SubSeq(events, 1, Len(frames) + 2)
                  = <<TTSStartedFrame>> \o frames \o <<TTSStoppedFrame>>
            /\ \A k \in DOMAIN frames :
                  LET size == IF k * N <= L THEN N ELSE L - (k - 1) * N
                  IN  /\ size > 0
                      /\ k < Len(frames) => size = N
                      /\ frames[k].audio = [j \in 1..size |-> audio_content[(k - 1) * N + j]]

\* several frames, the last one shorter than the chunk size
C7_Witness ==
    /\ Stopped(events) # << >>
    /\ Len(audio_content) > chunk_size
    /\ Len(audio_content) % chunk_size # 0
    /\ Len(Audio(events)) = CeilDiv(Len(audio_content), chunk_size)

----------------------------------------------------------------------------
(* C8 *)

\* the field of the params object when one supplying it is passed
Supplied(a, field, none) ==
    /\ a.params # NoParams
    /\ field \in DOMAIN a.params[1]
    /\ a.params[1][field] # none

\* C8 as stated: construction leaves as effective output format (voice id) the
\* field of the params object when a params object supplying it was passed,
\* and the discrete constructor argument otherwise.
C8_ParamsThenDiscrete ==
    [][(phase = "new" /\ phase' = "ready") =>
          /\ settings'.output_format =
                IF Supplied(args, "output_format", NoneFormat)
                THEN args.params[1].output_format ELSE args.output_format
          /\ settings'.voice_id =
                IF Supplied(args, "voice_id", None)
                THEN args.params[1].voice_id ELSE args.voice_id]_vars

----------------------------------------------------------------------------
(* C9 *)

\* C9: __init__ raises exactly when the api key is missing or empty, and then
\* no session exists or is referenced, none is marked as created, and no
\* settings, key or voice are recorded.
C9_MissingKeyFailsFirst ==
    [][(phase = "new" /\ phase' # "new") =>
          IF args.api_key \in {None, ""}
          THEN /\ phase' = "failed"
               /\ session' = None
               /\ clientSessions'.internal = "absent"
               /\ created_session' = Unset
               /\ settings' = Unset
               /\ api_key' = None /\ base_voice' = None
          ELSE phase' = "ready"]_vars

\* a construction that raised, with no session of its own
C9_Witness ==
    /\ phase = "failed"
    /\ base_init
    /\ session = None /\ clientSessions.internal = "absent"

----------------------------------------------------------------------------
(* C10 *)

\* C10: as long as no cleanup() started while another was suspended, an
\* adapter that created its session has invoked close() at most once, exactly
\* once as soon as cleanup() was called, and when no cleanup() is suspended
\* the session is closed and the reference cleared.
C10_CleanupIdempotent ==
    (phase = "ready" /\ created_session = TRUE /\ ~cleanup_overlap) =>
        /\ close_calls <= 1
        /\ cleanup_calls >= 1 => close_calls = 1
        /\ (cleanup_calls >= 1 /\ closing = 0) =>
              (session = None /\ clientSessions.internal = "closed")

\* two cleanup() calls in succession on an internally created session
C10_Witness ==
    /\ phase = "ready" /\ created_session = TRUE /\ ~cleanup_overlap
    /\ cleanup_calls >= 2 /\ closing = 0
    /\ close_calls = 1 /\ session = None

----------------------------------------------------------------------------
\* C11: an adapter constructed with an externally supplied session records that
\* it does not own it, and from then on no step (run_tts, the setters, cleanup,
\* scoped entry and exit) changes the ownership flag, closes the external
\* session or clears the adapter's reference to it.
C11_ExternalSessionKept ==
    [][ /\ (phase = "new" /\ phase' = "ready" /\ args.aiohttp_session = "external")
            => (session' = "external" /\ created_session' = FALSE)
        /\ phase = "ready"
            => /\ created_session' = created_session
               /\ created_session = FALSE
                    => /\ session' = "external"
                       /\ clientSessions'.external = "open"
                       /\ close_calls' = 0 ]_vars

C11_Witness ==
    /\ phase = "ready"
    /\ created_session = FALSE
    /\ scope = "exited"
    /\ cleanup_calls = 2
    /\ calls >= 1
    /\ session = "external"
    /\ clientSessions.external = "open"

\* C12: scoped entry returns the adapter itself; scoped exit runs cleanup
\* whether the block ended normally or with an exception, so that once the exit
\* has returned an internally created session is closed and its reference
\* cleared.
C12_ScopedExitCleansUp ==
    /\ scope # "outside" => entered = "self"
    /\ scope \in {"exiting", "exited"} => cleanup_calls >= 1
    /\ (scope = "exited" /\ created_session = TRUE)
         => (session = None /\ clientSessions.internal = "closed" /\ close_calls >= 1)

C12_Witness ==
    /\ scope = "exited"
    /\ scope_exc = "Exception"
    /\ created_session = TRUE
    /\ session = None
    /\ clientSessions.internal = "closed"
    /\ close_calls = 1

----------------------------------------------------------------------------
\* a step of the run_tts call in flight
RunTtsStep == InFlight /\ (pc' # pc \/ i' # i)

\* C13: no step of a run_tts call, on the non-200 path and in the exception
\* handler as elsewhere, changes the session reference, the ownership flag,
\* the voice id, the output format, the api key or the state of a session; a
\* call made after a failed one therefore finds the session it needs, and
\* issues its own request whenever the adapter still holds a session.
C13_FailingCallKeepsAdapter ==
    [][ /\ RunTtsStep
            => UNCHANGED <<session, created_session, settings, base_voice, api_key,
                           clientSessions>>
        /\ (pc = "start_ttfb_metrics" /\ request' # Unset /\ session # None)
            => (posts' = 1 /\ pc' = "post") ]_vars

\* a call that failed on a 503 response has ended, the adapter still holds its
\* open session, and a further call can be made
C13_Witness ==
    /\ Ended /\ Failing /\ Non200
    /\ calls < MaxCalls
    /\ session # None
    /\ clientSessions[session] = "open"
    /\ settings.output_format = request.json.outputFormat

\* C14: a run_tts call invokes session.post at most once, whichever path it
\* takes.
C14_AtMostOnePost == posts <= 1

\* a call that posted once and ended in the exception handler
C14_Witness ==
    /\ posts = 1
    /\ Ended /\ Failing
    /\ Len(pushes) >= 1

----------------------------------------------------------------------------
\* C15 as stated: the output format is read once per call; once a call has
\* computed its audio content, that content is the response body stripped (or
\* not) according to the output format sent in the call's own request, also
\* when set_output_format ran while the call was suspended.
C15_StripBySentFormat ==
    (Started(events) # << >>
        /\ pc \in {"stop_ttfb_metrics", "yield_audio", "yield_stopped", "done"})
    => audio_content = StripHeader(request.json.outputFormat, response.body)

----------------------------------------------------------------------------
\* C16 as stated: under every interleaving of cleanup() invocations, those
\* that overlap included, close() is invoked on an internally created session
\* at most once, and exactly once as soon as cleanup() was called.
C16_ClosedExactlyOnce ==
    (phase = "ready" /\ created_session = TRUE) =>
        /\ close_calls <= 1
        /\ cleanup_calls >= 1 => close_calls = 1

----------------------------------------------------------------------------
\* C17: in every state of a constructed adapter the voice id of the settings
\* record is the voice registered with the base class, and a step that changes
\* the output format of the settings record changes neither of the two.
C17_VoiceConsistent ==
    [][ /\ phase' = "ready" => settings'.voice_id = base_voice'
        /\ (phase = "ready" /\ settings'.output_format # settings.output_format)
            => (settings'.voice_id = settings.voice_id /\ base_voice' = base_voice) ]_vars

\* both setters have run since the request of the current call was built
C17_Witness ==
    /\ phase = "ready"
    /\ request # Unset
    /\ settings.voice_id # request.json.voiceId
    /\ settings.output_format # request.json.outputFormat
    /\ base_voice = settings.voice_id

----------------------------------------------------------------------------
\* C18: start_tts_usage_metrics is called at most once per call, only in a call
\* whose response has status 200, and with the text of the request payload
\* (the truncated text, never longer than 2500); a call whose response is not
\* 200 or that has no response never calls it; a call that has yielded
\* TTSStartedFrame, and a call on a 200 response that reported no error and
\* is past the body read, has called it exactly once.
C18_UsageMetricOnceOn200 ==
    /\ Len(metered) <= 1
    /\ metered # << >> =>
          /\ HasResponse /\ response.status = HTTP_OK
          /\ metered[1] = request.json.text
          /\ Len(metered[1]) = Min(Len(in_text), MAX_TEXT_LEN)
    /\ (~HasResponse \/ Non200) => metered = << >>
    /\ Started(events) # << >> => Len(metered) = 1
    /\ (HasResponse /\ response.status = HTTP_OK /\ pushes = << >> /\ pc # "response_read")
          => Len(metered) = 1

\* the metric was recorded for a text that had been truncated
C18_Witness ==
    /\ Started(events) # << >>
    /\ Len(in_text) > MAX_TEXT_LEN
    /\ metered = <<request.json.text>>
    /\ Len(metered[1]) = MAX_TEXT_LEN

----------------------------------------------------------------------------
\* the message of a call that came to its request with self._session = None
NoSessionMessage == ExcErrorMessage("'NoneType' object has no attribute 'post'")

\* C19 as stated: once cleanup() has cleared an internally created session the
\* session stays closed and is not recreated, and a run_tts call that finds
\* the session cleared has, when it has ended, issued no request, called
\* push_error once and yielded one error frame and nothing else.
C19_ClearedSessionOneError ==
    (phase = "ready" /\ created_session = TRUE /\ session = None) =>
        /\ clientSessions.internal = "closed"
        /\ (Ended /\ error_message = NoSessionMessage) =>
              /\ posts = 0
              /\ Len(pushes) = 1
              /\ events = <<ErrorFrame(NoSessionMessage)>>

----------------------------------------------------------------------------
\* C20 as stated: when the consumer cancels or closes a run_tts call that is
\* suspended in an await or in a yield, the step that ends the call and every
\* step after it yields no frame (so no error frame and no TTSStoppedFrame)
\* and calls push_error not at all.
C20_CancelPublishesNothing ==
    [][ pc' \in {"cancelled", "cancel_handler_push_error", "close_handler_push_error"}
            => (events' = events /\ pushes' = pushes) ]_vars

=============================================================================
